---- MODULE Spec2Model ----
(***************************************************************************)
(* errcheck.h: the checked-call protocol (CHECK, CHECK_SAME, RETURN_ERR),  *)
(* its runtime fault injection (g_inject_error_flag), the build-time       *)
(* injection of the examples (CHECK_SENSOR) and the logging hook (ERR_LOG).*)
(*                                                                         *)
(* An enclosing operation (device_init, bus_init, init, ...) is a sequence *)
(* of statements, each one use of a macro.  Its caller (main) starts it,   *)
(* the statements run one after the other, and it ends either at the first *)
(* failing statement (return ERR_FAILURE) or at its final return ERR_NONE. *)
(* The statement at each position, its error code and the value its call   *)
(* returns are inputs, drawn from bounded sets.                            *)
(***************************************************************************)
EXTENDS Integers, Sequences, FiniteSets, TLC

\* ---------------------------------------------------------------- bounds
MaxCode == 3        \* error codes are 0 .. MaxCode
MaxOutcome == 1     \* a call returns -MaxOutcome .. MaxOutcome
MaxCalls == 3       \* statements of one enclosing operation

\* ------------------------------------------------------ program constants
ERR_NONE == 0
ERR_SENSOR == 1
ERR_FAILURE == 255
\* The README's enumeration (ERR_NONE, ERR_POWER, ERR_SENSOR, ERR_RADIO, ...)
\* and the value its debugger session writes to the trigger.
ERR_RADIO == 3
GdbInjectValue == 2

ErrorCode == ERR_NONE .. MaxCode
Outcome == -MaxOutcome .. MaxOutcome

\* The value of 'result' in main before the operation has returned.
NoResult == << >>
\* No statement of the current run has executed yet.
NoStmt == [kind |-> "none", code |-> ERR_NONE, call |-> 0, rv |-> 0]
\* No checked call of the current run was handed a zero outcome yet.
NoFail == [at |-> 0, code |-> ERR_NONE]
\* No outer operation is waiting for the value of an inner one.
NoOuter == [at |-> "none", inner |-> ERR_NONE]
\* The execution contexts that may use the protocol side by side.
Context == {"main", "isr"}
\* A context that is not inside a CHECK.
Idle == [at |-> "idle", code |-> ERR_NONE, call |-> 0, forced |-> FALSE, seen |-> ERR_NONE]

VARIABLES
    \* the build: which switches the translation unit was compiled with
    ERRCHECK_ENABLE_RUNTIME_INJECTION,
    ERRCHECK_ENABLE_LOGGING,
    INJECT_ERR_SENSOR,
    \* the program's globals
    g_last_error,
    g_current_error_group,
    g_inject_error_flag,
    \* what ERR_LOG has printed
    err_log,
    \* the enclosing operation: is it executing, and what it returned to main
    running,
    result,
    \* bookkeeping of the current run of the enclosing operation
    pc,             \* statements executed so far (the last one is statement pc)
    stmt,           \* the statement executed last: macro, code, call value, real outcome
    evaluated,      \* positions whose call expression was evaluated
    first_fail,     \* position and code of the first checked call handed a zero outcome
    n_evals,        \* times the last statement's call expression was evaluated
    \* bookkeeping across runs
    ever_failed,    \* some statement has failed since startup
    fired,          \* code of the forced failure since the trigger was last written
    \* an outer operation whose statement is CHECK(inner(), e)
    outer,
    \* two execution contexts (main and interrupt) inside CHECK, step by step
    ctx,            \* per context: where it is in the macro, its code and call value
    shots,          \* trigger tests that forced a failure since the trigger was last armed
    last_write      \* the code of the most recent write to g_last_error

build == <<ERRCHECK_ENABLE_RUNTIME_INJECTION, ERRCHECK_ENABLE_LOGGING, INJECT_ERR_SENSOR>>
globals == <<g_last_error, g_current_error_group, g_inject_error_flag>>
frame == <<running, result>>
notes == <<pc, stmt, evaluated, first_fail, n_evals, ever_failed, fired>>
conc == <<ctx, shots, last_write>>
vars == <<build, globals, err_log, frame, notes, outer, conc>>

\* ------------------------------------------------------------ the macros

\* 'return v;' in the enclosing operation.
Return(v) ==
    /\ running' = FALSE
    /\ result' = <<v>>

\* The do { } while (0) ends without returning: the next statement follows.
FallThrough ==
    /\ running' = TRUE
    /\ result' = result

\* CHECK_base with the slot write left out of the failure branch.
CHECK_base_no_record(call, err_flag) ==
    IF call = 0
    THEN /\ g_last_error' = g_last_error
         /\ g_inject_error_flag' = g_inject_error_flag
         /\ Return(ERR_FAILURE)
    ELSE /\ g_last_error' = g_last_error
         /\ g_inject_error_flag' = g_inject_error_flag
         /\ FallThrough

\* CHECK_base with the return left out of the failure branch.
CHECK_base_no_return(call, err_flag) ==
    /\ g_last_error' = IF call = 0 THEN err_flag ELSE g_last_error
    /\ g_inject_error_flag' = g_inject_error_flag
    /\ FallThrough

\* CHECK_base with the test written as (call) <= 0.
CHECK_base_not_positive(call, err_flag) ==
    IF call <= 0
    THEN /\ g_last_error' = err_flag
         /\ g_inject_error_flag' = g_inject_error_flag
         /\ Return(ERR_FAILURE)
    ELSE /\ g_last_error' = g_last_error
         /\ g_inject_error_flag' = g_inject_error_flag
         /\ FallThrough

\* #define CHECK(call, err_flag), the standard one.
CHECK_base(call, err_flag) ==
    IF call = 0
    THEN /\ g_last_error' = err_flag
         /\ g_inject_error_flag' = g_inject_error_flag
         /\ Return(ERR_FAILURE)
    ELSE /\ g_last_error' = g_last_error
         /\ g_inject_error_flag' = g_inject_error_flag
         /\ FallThrough

\* CHECK_injection with the trigger left armed after it fired.
CHECK_injection_sticky(call, err_flag) ==
    IF call = 0 \/ g_inject_error_flag = err_flag
    THEN /\ g_last_error' = err_flag
         /\ g_inject_error_flag' = g_inject_error_flag
         /\ Return(ERR_FAILURE)
    ELSE /\ g_last_error' = g_last_error
         /\ g_inject_error_flag' = g_inject_error_flag
         /\ FallThrough

\* #define CHECK(call, err_flag) under ERRCHECK_ENABLE_RUNTIME_INJECTION.
CHECK_injection(call, err_flag) ==
    IF call = 0 \/ g_inject_error_flag = err_flag
    THEN /\ g_last_error' = err_flag
         /\ g_inject_error_flag' = 0
         /\ Return(ERR_FAILURE)
    ELSE /\ g_last_error' = g_last_error
         /\ g_inject_error_flag' = g_inject_error_flag
         /\ FallThrough

\* How often the expansion of the standard CHECK evaluates (call): it is the
\* operand of the one test, if ((call) == 0).
CHECK_base_evals(err_flag) == 1

\* CHECK_injection_evals had the trigger test been written first, the call
\* skipped by || when the trigger matches.
CHECK_injection_evals_trigger_first(err_flag) ==
    IF g_inject_error_flag = err_flag THEN 0 ELSE 1

\* How often the injection CHECK evaluates (call): (call) == 0 is the left
\* operand of ||, evaluated whatever the trigger holds.
CHECK_injection_evals(err_flag) == 1

\* How often the CHECK in use evaluates (call).
CHECK_evals(err_flag) ==
    IF ERRCHECK_ENABLE_RUNTIME_INJECTION
    THEN CHECK_injection_evals(err_flag)
    ELSE CHECK_base_evals(err_flag)

\* CHECK with the injection variant compiled in whatever the switch says.
CHECK_always_injection(call, err_flag) == CHECK_injection(call, err_flag)

\* The CHECK a use expands to: the #ifdef / #undef picks one of the two.
CHECK(call, err_flag) ==
    IF ERRCHECK_ENABLE_RUNTIME_INJECTION
    THEN CHECK_injection(call, err_flag)
    ELSE CHECK_base(call, err_flag)

\* CHECK_SAME with a site-local code in place of the group.
CHECK_SAME_site_code(call) == CHECK(call, ERR_SENSOR)

\* #define CHECK_SAME(call) CHECK((call), g_current_error_group)
CHECK_SAME(call) == CHECK(call, g_current_error_group)

\* RETURN_ERR with the slot write left out.
RETURN_ERR_no_record(err_flag) ==
    /\ g_last_error' = g_last_error
    /\ g_inject_error_flag' = g_inject_error_flag
    /\ Return(ERR_FAILURE)

\* RETURN_ERR with the return left out.
RETURN_ERR_no_return(err_flag) ==
    /\ g_last_error' = err_flag
    /\ g_inject_error_flag' = g_inject_error_flag
    /\ FallThrough

\* #define RETURN_ERR(err_flag)
RETURN_ERR(err_flag) ==
    /\ g_last_error' = err_flag
    /\ g_inject_error_flag' = g_inject_error_flag
    /\ Return(ERR_FAILURE)

\* CHECK_SENSOR_arg with the two branches of the #ifdef swapped.
CHECK_SENSOR_arg_swapped(call) == IF INJECT_ERR_SENSOR THEN call ELSE 0

\* The first argument CHECK_SENSOR(call) hands to CHECK: the literal 0 when
\* INJECT_ERR_SENSOR is defined, the call otherwise.
CHECK_SENSOR_arg(call) == IF INJECT_ERR_SENSOR THEN 0 ELSE call

\* Whether the expansion of CHECK_SENSOR(call) still contains the call.
CHECK_SENSOR_evaluates == ~INJECT_ERR_SENSOR

\* How often the expansion of CHECK_SENSOR(call) evaluates the call.
CHECK_SENSOR_evals == IF CHECK_SENSOR_evaluates THEN CHECK_evals(ERR_SENSOR) ELSE 0

\* #define CHECK_SENSOR(call)
CHECK_SENSOR(call) == CHECK(CHECK_SENSOR_arg(call), ERR_SENSOR)

\* #define ERR_LOG(...): printf when logging is compiled in, nothing otherwise.
ERR_LOG(msg) == IF ERRCHECK_ENABLE_LOGGING THEN Append(err_log, msg) ELSE err_log

\* ------------------------------------------------------------ bookkeeping

\* Statement pc + 1 of the run has just executed (its macro has set running').
Note(kind, code, call, rv, ev) ==
    /\ pc' = pc + 1
    /\ stmt' = [kind |-> kind, code |-> code, call |-> call, rv |-> rv]
    /\ evaluated' = IF ev THEN evaluated \cup {pc + 1} ELSE evaluated
    /\ first_fail' = IF first_fail.at = 0 /\ call = 0 /\ kind # "RETURN_ERR"
                     THEN [at |-> pc + 1, code |-> code]
                     ELSE first_fail
    /\ ever_failed' = (ever_failed \/ ~running')
    /\ fired' = IF ~running' /\ call # 0 /\ kind # "RETURN_ERR" /\ code # ERR_NONE
                THEN code
                ELSE fired

\* ---------------------------------------------------------------- actions

Init ==
    /\ ERRCHECK_ENABLE_RUNTIME_INJECTION \in BOOLEAN
    /\ ERRCHECK_ENABLE_LOGGING \in BOOLEAN
    /\ INJECT_ERR_SENSOR \in BOOLEAN
    /\ g_last_error = ERR_NONE
    /\ g_current_error_group \in ErrorCode
    /\ g_inject_error_flag = 0
    /\ err_log = << >>
    /\ running = FALSE
    /\ result = NoResult
    /\ pc = 0
    /\ stmt = NoStmt
    /\ evaluated = {}
    /\ first_fail = NoFail
    /\ n_evals = 0
    /\ ever_failed = FALSE
    /\ fired = ERR_NONE
    /\ outer = NoOuter
    /\ ctx = [c \in Context |-> Idle]
    /\ shots = 0
    /\ last_write = ERR_NONE

\* main: err_t result = init();
Call ==
    /\ ~running
    /\ running' = TRUE
    /\ result' = NoResult
    /\ pc' = 0
    /\ stmt' = NoStmt
    /\ evaluated' = {}
    /\ first_fail' = NoFail
    /\ n_evals' = 0
    /\ UNCHANGED <<build, globals, err_log, ever_failed, fired, outer, conc>>

\* A statement CHECK(f(), err_flag) where f() returns rv.
CheckStmt(rv, err_flag) ==
    /\ running
    /\ pc < MaxCalls
    /\ CHECK(rv, err_flag)
    /\ Note("CHECK", err_flag, rv, rv, CHECK_evals(err_flag) > 0)
    /\ n_evals' = CHECK_evals(err_flag)
    /\ UNCHANGED <<build, g_current_error_group, err_log, outer, conc>>

\* A statement CHECK_SAME(f()) where f() returns rv.
CheckSameStmt(rv) ==
    /\ running
    /\ pc < MaxCalls
    /\ CHECK_SAME(rv)
    /\ Note("CHECK_SAME", g_current_error_group, rv, rv,
            CHECK_evals(g_current_error_group) > 0)
    /\ n_evals' = CHECK_evals(g_current_error_group)
    /\ UNCHANGED <<build, g_current_error_group, err_log, outer, conc>>

\* A statement CHECK_SENSOR(f()) where f() returns (or would return) rv.
CheckSensorStmt(rv) ==
    /\ running
    /\ pc < MaxCalls
    /\ CHECK_SENSOR(rv)
    /\ Note("CHECK_SENSOR", ERR_SENSOR, CHECK_SENSOR_arg(rv), rv, CHECK_SENSOR_evaluates)
    /\ n_evals' = CHECK_SENSOR_evals
    /\ UNCHANGED <<build, g_current_error_group, err_log, outer, conc>>

\* A statement RETURN_ERR(err_flag).
ReturnErrStmt(err_flag) ==
    /\ running
    /\ pc < MaxCalls
    /\ RETURN_ERR(err_flag)
    /\ Note("RETURN_ERR", err_flag, 0, 0, FALSE)
    /\ n_evals' = 0
    /\ UNCHANGED <<build, g_current_error_group, err_log, outer, conc>>

\* The operation's last statement: return ERR_NONE;
ReturnNone ==
    /\ running
    /\ Return(ERR_NONE)
    /\ UNCHANGED <<build, globals, err_log, notes, outer, conc>>

\* The caller names the code of the next run of grouped calls.
SetGroup(g) ==
    /\ g # g_current_error_group
    /\ g_current_error_group' = g
    /\ UNCHANGED <<build, g_last_error, g_inject_error_flag, err_log, frame, notes,
                   outer, conc>>

\* The debugger: set var g_inject_error_flag = x
Arm(x) ==
    /\ x # g_inject_error_flag \/ fired # ERR_NONE
    /\ g_inject_error_flag' = x
    /\ fired' = ERR_NONE
    /\ UNCHANGED <<build, g_last_error, g_current_error_group, err_log, frame,
                   pc, stmt, evaluated, first_fail, n_evals, ever_failed, outer, conc>>

Next ==
    \/ Call
    \/ \E rv \in Outcome, e \in ErrorCode : CheckStmt(rv, e)
    \/ \E rv \in Outcome : CheckSameStmt(rv)
    \/ \E rv \in Outcome : CheckSensorStmt(rv)
    \/ \E e \in ErrorCode : ReturnErrStmt(e)
    \/ ReturnNone
    \/ \E g \in ErrorCode : SetGroup(g)
    \/ \E x \in ErrorCode : Arm(x)

Spec == Init /\ [][Next]_vars

\* ------------------------------------------- two contexts, step by step
\* CHECK(f(), e) used from two execution contexts with no lock.  The macro
\* is a sequence of accesses to the shared globals: the test (one read of
\* the volatile trigger), the write of g_last_error, the write of the
\* trigger, the return.  Any interleaving of the two contexts and of the
\* debugger's writes is a behaviour.

\* The condition of the if in the CHECK in use.
CHECK_condition(call, err_flag) ==
    IF ERRCHECK_ENABLE_RUNTIME_INJECTION
    THEN call = 0 \/ g_inject_error_flag = err_flag
    ELSE call = 0

\* A slot that keeps the first cause until it is cleared.
CHECK_slot_write_first_wins(err_flag) ==
    IF g_last_error = ERR_NONE THEN err_flag ELSE g_last_error

\* g_last_error after g_last_error = (err_flag);
CHECK_slot_write(err_flag) == err_flag

ConcInit ==
    /\ Init
    /\ ~ERRCHECK_ENABLE_LOGGING
    /\ ~INJECT_ERR_SENSOR
    /\ g_current_error_group = ERR_NONE

\* Context c reaches CHECK(f(), e): f() returns rv and the condition is
\* tested.
ConcTest(c, e, rv) ==
    /\ ctx[c].at \in {"idle", "failed", "seen"}
    /\ LET taken == CHECK_condition(rv, e)
           forced == taken /\ rv # 0
       IN  /\ ctx' = [ctx EXCEPT ![c] =
                        IF taken
                        THEN [at |-> "write", code |-> e, call |-> rv,
                              forced |-> forced, seen |-> ERR_NONE]
                        ELSE Idle]
           /\ shots' = IF forced /\ e # ERR_NONE /\ shots < Cardinality(Context)
                       THEN shots + 1
                       ELSE shots
    /\ UNCHANGED <<build, globals, err_log, frame, notes, outer, last_write>>

\* g_last_error = (err_flag);
ConcWrite(c) ==
    /\ ctx[c].at = "write"
    /\ g_last_error' = CHECK_slot_write(ctx[c].code)
    /\ last_write' = ctx[c].code
    /\ ctx' = [ctx EXCEPT ![c].at =
                 IF ERRCHECK_ENABLE_RUNTIME_INJECTION THEN "reset" ELSE "return"]
    /\ UNCHANGED <<build, g_current_error_group, g_inject_error_flag, err_log,
                   frame, notes, outer, shots>>

\* g_inject_error_flag = 0;
ConcReset(c) ==
    /\ ctx[c].at = "reset"
    /\ g_inject_error_flag' = 0
    /\ ctx' = [ctx EXCEPT ![c].at = "return"]
    /\ UNCHANGED <<build, g_last_error, g_current_error_group, err_log,
                   frame, notes, outer, shots, last_write>>

\* return ERR_FAILURE;
ConcReturn(c) ==
    /\ ctx[c].at = "return"
    /\ ctx' = [ctx EXCEPT ![c].at = "failed", ![c].call = 0, ![c].forced = FALSE]
    /\ UNCHANGED <<build, globals, err_log, frame, notes, outer, shots, last_write>>

\* The caller, after result == ERR_FAILURE, reads g_last_error.
ConcRead(c) ==
    /\ ctx[c].at = "failed"
    /\ ctx' = [ctx EXCEPT ![c].at = "seen", ![c].seen = g_last_error]
    /\ UNCHANGED <<build, globals, err_log, frame, notes, outer, shots, last_write>>

\* The debugger writes the trigger while the contexts run.
ConcArm(x) ==
    /\ x # g_inject_error_flag
    /\ g_inject_error_flag' = x
    /\ shots' = 0
    /\ UNCHANGED <<build, g_last_error, g_current_error_group, err_log,
                   frame, notes, outer, ctx, last_write>>

ConcNext ==
    \/ \E c \in Context, e \in ErrorCode, rv \in Outcome : ConcTest(c, e, rv)
    \/ \E c \in Context : ConcWrite(c)
    \/ \E c \in Context : ConcReset(c)
    \/ \E c \in Context : ConcReturn(c)
    \/ \E c \in Context : ConcRead(c)
    \/ \E x \in ErrorCode : ConcArm(x)

SpecConc == ConcInit /\ [][ConcNext]_vars

\* ------------------------------------------------ an operation in a CHECK
\* outer() { CHECK(inner(), e); ... }: the operation of Spec is inner(); when
\* it has returned, its result is the value of the call of the outer CHECK.

\* inner() has returned into the frame of outer(), which goes on.
ResumeOuter ==
    /\ outer.at = "none"
    /\ ~running
    /\ result # NoResult
    /\ outer' = [at |-> "check", inner |-> result[1]]
    /\ running' = TRUE
    /\ result' = NoResult
    /\ pc' = 0
    /\ stmt' = NoStmt
    /\ evaluated' = {}
    /\ first_fail' = NoFail
    /\ n_evals' = 0
    /\ UNCHANGED <<build, globals, err_log, ever_failed, fired, conc>>

\* The statement CHECK(inner(), err_flag) of outer().
OuterCheckStmt(err_flag) ==
    /\ outer.at = "check"
    /\ running
    /\ CHECK(outer.inner, err_flag)
    /\ Note("CHECK", err_flag, outer.inner, outer.inner, CHECK_evals(err_flag) > 0)
    /\ n_evals' = CHECK_evals(err_flag)
    /\ outer' = [outer EXCEPT !.at = "done"]
    /\ UNCHANGED <<build, g_current_error_group, err_log, conc>>

NestedNext ==
    \/ outer.at = "none" /\ Next
    \/ ResumeOuter
    \/ \E e \in ErrorCode : OuterCheckStmt(e)

SpecNested == Init /\ [][NestedNext]_vars

\* ------------------------------------------------------------- vocabulary

\* This step executes a statement (no other action moves pc forward).
StmtStep == pc' = pc + 1

\* The enclosing operation has returned v to its caller.
Returned(v) == result = <<v>>

\* The macros that take a call.
CheckedKinds == {"CHECK", "CHECK_SAME", "CHECK_SENSOR"}

TypeOK ==
    /\ build \in BOOLEAN \X BOOLEAN \X BOOLEAN
    /\ g_last_error \in ErrorCode
    /\ g_current_error_group \in ErrorCode
    /\ g_inject_error_flag \in ErrorCode
    /\ err_log \in Seq(ErrorCode)
    /\ running \in BOOLEAN
    /\ result \in {NoResult, <<ERR_NONE>>, <<ERR_FAILURE>>}
    /\ pc \in 0 .. MaxCalls
    /\ evaluated \subseteq 1 .. MaxCalls
    /\ first_fail.at \in 0 .. MaxCalls
    /\ ever_failed \in BOOLEAN
    /\ fired \in ErrorCode
    /\ n_evals \in 0 .. 1
    /\ outer.at \in {"none", "check", "done"}
    /\ outer.inner \in {ERR_NONE, ERR_FAILURE}
    /\ \A c \in Context :
          /\ ctx[c].at \in {"idle", "write", "reset", "return", "failed", "seen"}
          /\ ctx[c].code \in ErrorCode
          /\ ctx[c].seen \in ErrorCode
    /\ shots \in 0 .. Cardinality(Context)
    /\ last_write \in ErrorCode

\* ------------------------------------------------------------------ claims

\* C1: for every code e other than NONE and every prior g_last_error, a
\* CHECK(call, e) whose call returns 0 makes the enclosing operation return
\* ERR_FAILURE at that statement, with g_last_error = e right after.
C1_FailureRecordsCode ==
    [][(StmtStep /\ stmt'.kind = "CHECK" /\ stmt'.code # ERR_NONE /\ stmt'.call = 0)
         => /\ running /\ ~running'
            /\ result' = <<ERR_FAILURE>>
            /\ g_last_error' = stmt'.code]_vars

\* C1 happens: the second statement of a run, a CHECK with code 2, got a zero
\* outcome and the operation returned ERR_FAILURE with the slot at 2.
C1_Witness ==
    /\ stmt = [kind |-> "CHECK", code |-> 2, call |-> 0, rv |-> 0]
    /\ Returned(ERR_FAILURE)
    /\ g_last_error = 2
    /\ pc = 2

\* C3: the statements run in program order and the first failing checked
\* call ends the run: every earlier call was evaluated, none after it is, and
\* g_last_error is the code of that first call when the operation returns.
C3_FirstFailureDominates ==
    /\ (1 .. (pc - 1)) \subseteq evaluated
    /\ evaluated \subseteq 1 .. pc
    /\ first_fail.at # 0 =>
         /\ pc = first_fail.at
         /\ ~running
         /\ Returned(ERR_FAILURE)
         /\ g_last_error = first_fail.code
    /\ Returned(ERR_FAILURE) =>
         /\ pc > 0
         /\ ~running
         /\ g_last_error = stmt.code

\* C3 happens: two checked calls succeeded and the third was the first to fail.
C3_Witness ==
    /\ first_fail = [at |-> 3, code |-> 2]
    /\ evaluated = {1, 2, 3}
    /\ stmt.kind = "CHECK"
    /\ Returned(ERR_FAILURE)
    /\ g_last_error = 2

\* C4: a failing CHECK_SAME makes the operation return ERR_FAILURE with
\* g_last_error equal to g_current_error_group as it was at that call, no
\* later grouped call is evaluated, and CHECK_SAME never writes the group.
C4_GroupedFailure ==
    [][(StmtStep /\ stmt'.kind = "CHECK_SAME")
         => /\ g_current_error_group' = g_current_error_group
            /\ stmt'.code = g_current_error_group
            /\ first_fail.at = 0
            /\ (pc + 1) \in evaluated'
            /\ stmt'.call = 0 =>
                 /\ ~running'
                 /\ result' = <<ERR_FAILURE>>
                 /\ g_last_error' = g_current_error_group
            /\ ~running' => g_last_error' = g_current_error_group]_vars

\* C4 happens: of three grouped calls the second failed with the group at 2.
C4_Witness ==
    /\ stmt = [kind |-> "CHECK_SAME", code |-> 2, call |-> 0, rv |-> 0]
    /\ pc = 2
    /\ evaluated = {1, 2}
    /\ Returned(ERR_FAILURE)
    /\ g_last_error = 2

\* C5: runtime injection is one-shot and code-selective.  In a build with
\* ERRCHECK_ENABLE_RUNTIME_INJECTION, for a checked call handed a nonzero
\* outcome: with the trigger armed with the call's code X it fails (return
\* ERR_FAILURE, g_last_error = X, trigger back to 0); once a forced failure
\* with code X has happened and the trigger was not written since, it falls
\* through; and with the trigger armed with another code it falls through.
C5_InjectionOneShot ==
    [][(/\ StmtStep
        /\ ERRCHECK_ENABLE_RUNTIME_INJECTION
        /\ stmt'.kind \in CheckedKinds
        /\ stmt'.call # 0
        /\ stmt'.code # ERR_NONE)
         => /\ g_inject_error_flag = stmt'.code =>
                 /\ ~running'
                 /\ result' = <<ERR_FAILURE>>
                 /\ g_last_error' = stmt'.code
                 /\ g_inject_error_flag' = 0
                 /\ fired' = stmt'.code
            /\ fired = stmt'.code =>
                 /\ running'
                 /\ result' = result
                 /\ g_last_error' = g_last_error
            /\ g_inject_error_flag # stmt'.code =>
                 /\ running'
                 /\ result' = result
                 /\ g_last_error' = g_last_error
                 /\ g_inject_error_flag' = g_inject_error_flag]_vars

\* C5 happens: after a forced failure with code 2 and no write to the trigger
\* since, a later run's CHECK with code 2 and a nonzero outcome fell through.
C5_Witness ==
    /\ ERRCHECK_ENABLE_RUNTIME_INJECTION
    /\ fired = 2
    /\ stmt = [kind |-> "CHECK", code |-> 2, call |-> 1, rv |-> 1]
    /\ running
    /\ g_last_error = 2
    /\ g_inject_error_flag = 0

\* C8: CHECK_SENSOR in a build with INJECT_ERR_SENSOR always returns
\* ERR_FAILURE with g_last_error = ERR_SENSOR, whatever the real call would
\* return, and without evaluating it; in a build without the flag it does
\* exactly what CHECK(call, ERR_SENSOR) does, the call evaluated once.
C8_BuildTimeInjection ==
    [][(StmtStep /\ stmt'.kind = "CHECK_SENSOR")
         => /\ stmt'.code = ERR_SENSOR
            /\ INJECT_ERR_SENSOR =>
                 /\ ~running'
                 /\ result' = <<ERR_FAILURE>>
                 /\ g_last_error' = ERR_SENSOR
                 /\ evaluated' = evaluated
            /\ ~INJECT_ERR_SENSOR =>
                 /\ CHECK(stmt'.rv, ERR_SENSOR)
                 /\ stmt'.call = stmt'.rv
                 /\ evaluated' = evaluated \cup {pc + 1}]_vars

\* C8 happens: in the injected build a sensor call that would have returned 1
\* was not evaluated and the operation returned ERR_FAILURE.
C8_Witness ==
    /\ INJECT_ERR_SENSOR
    /\ stmt = [kind |-> "CHECK_SENSOR", code |-> ERR_SENSOR, call |-> 0, rv |-> 1]
    /\ pc \notin evaluated
    /\ Returned(ERR_FAILURE)
    /\ g_last_error = ERR_SENSOR

\* C9: g_last_error is ERR_NONE until the first failure; whenever the
\* operation has returned ERR_FAILURE it holds the code of the statement
\* that returned; every failing statement overwrites it and no other step
\* changes it.
C9_SlotHoldsCause ==
    /\ [](~ever_failed => g_last_error = ERR_NONE)
    /\ [](Returned(ERR_FAILURE) =>
            /\ stmt.kind \in CheckedKinds \cup {"RETURN_ERR"}
            /\ g_last_error = stmt.code)
    /\ [][/\ (StmtStep /\ ~running') => g_last_error' = stmt'.code
          /\ g_last_error' # g_last_error => (StmtStep /\ ~running')
          /\ ever_failed' # ever_failed => (StmtStep /\ ~running')]_vars

\* C9 happens: a later run failed with another code than the one the slot
\* held, by RETURN_ERR, and the slot now holds the new cause.
C9_Witness ==
    /\ stmt = [kind |-> "RETURN_ERR", code |-> 1, call |-> 0, rv |-> 0]
    /\ Returned(ERR_FAILURE)
    /\ g_last_error = 1
    /\ fired = 2

\* C2: a CHECK or CHECK_SAME handed a nonzero outcome while no injection is
\* armed (g_inject_error_flag = ERR_NONE) does not exit: the operation keeps
\* running, nothing is returned, and g_last_error keeps its value.
C2_SuccessFallsThrough ==
    [][(/\ StmtStep
        /\ stmt'.kind \in {"CHECK", "CHECK_SAME"}
        /\ stmt'.call # 0
        /\ g_inject_error_flag = ERR_NONE)
         => /\ running'
            /\ result' = result
            /\ g_last_error' = g_last_error]_vars

\* C6: an armed trigger stays armed over every statement whose code is
\* another (non-NONE) code than the armed one, also when that statement fails
\* for real.
C6_TriggerKeptUntilItFires ==
    [][(/\ StmtStep
        /\ ERRCHECK_ENABLE_RUNTIME_INJECTION
        /\ g_inject_error_flag # ERR_NONE
        /\ stmt'.code # ERR_NONE
        /\ stmt'.code # g_inject_error_flag)
         => g_inject_error_flag' = g_inject_error_flag]_vars

\* C7: in a build with ERRCHECK_ENABLE_RUNTIME_INJECTION and the trigger at
\* ERR_NONE no checked call is forced to fail, whatever its code: handed a
\* nonzero outcome it falls through and g_last_error is not written.
C7_NoneTriggerForcesNothing ==
    [][(/\ StmtStep
        /\ ERRCHECK_ENABLE_RUNTIME_INJECTION
        /\ g_inject_error_flag = ERR_NONE
        /\ stmt'.kind \in CheckedKinds
        /\ stmt'.call # 0)
         => /\ running'
            /\ g_last_error' = g_last_error
            /\ ever_failed' = ever_failed]_vars

\* C10: in a build with ERRCHECK_ENABLE_LOGGING every failing statement
\* calls the hook with the recorded code: once the operation has returned
\* ERR_FAILURE the last thing logged is the code of the failing statement.
\* Without logging nothing is ever logged.
C10_HookFiresOnFailure ==
    /\ ~ERRCHECK_ENABLE_LOGGING => err_log = << >>
    /\ (ERRCHECK_ENABLE_LOGGING /\ Returned(ERR_FAILURE)) =>
         /\ err_log # << >>
         /\ err_log[Len(err_log)] = stmt.code

\* C11: RETURN_ERR(e) takes no call: whenever it is reached it writes e into
\* g_last_error and the operation returns ERR_FAILURE, and no statement of
\* the operation runs after it.
C11_ReturnErrUnconditional ==
    /\ [](stmt.kind = "RETURN_ERR" =>
            /\ ~running
            /\ Returned(ERR_FAILURE)
            /\ g_last_error = stmt.code)
    /\ [][(StmtStep /\ stmt'.kind = "RETURN_ERR")
            => /\ ~running'
               /\ result' = <<ERR_FAILURE>>
               /\ g_last_error' = stmt'.code
               /\ n_evals' = 0
               /\ evaluated' = evaluated]_vars

\* C11 happens: after two checked calls that passed, RETURN_ERR(3) ended the
\* run with the slot at 3.
C11_Witness ==
    /\ stmt = [kind |-> "RETURN_ERR", code |-> 3, call |-> 0, rv |-> 0]
    /\ pc = 3
    /\ evaluated = {1, 2}
    /\ Returned(ERR_FAILURE)
    /\ g_last_error = 3

\* C12: in a build without ERRCHECK_ENABLE_RUNTIME_INJECTION what a statement
\* does is a function of its macro, its code, its call value and the slot
\* alone: the exit decision, the value returned, g_last_error and the number
\* of evaluations are the same whatever g_inject_error_flag holds, and the
\* statement leaves the trigger as it was.
C12_TriggerIgnoredWithoutSwitch ==
    [][(StmtStep /\ ~ERRCHECK_ENABLE_RUNTIME_INJECTION)
         => LET fails == stmt'.kind = "RETURN_ERR" \/ stmt'.call = 0
            IN  /\ g_inject_error_flag' = g_inject_error_flag
                /\ running' = ~fails
                /\ result' = IF fails THEN <<ERR_FAILURE>> ELSE result
                /\ g_last_error' = IF fails THEN stmt'.code ELSE g_last_error
                /\ n_evals' = IF stmt'.kind \in {"CHECK", "CHECK_SAME"} THEN 1
                               ELSE IF stmt'.kind = "CHECK_SENSOR" /\ ~INJECT_ERR_SENSOR
                                    THEN 1 ELSE 0]_vars

\* C12 happens: without the switch, a CHECK whose code equals the value in
\* the trigger passed, and the trigger still holds that value.
C12_Witness ==
    /\ ~ERRCHECK_ENABLE_RUNTIME_INJECTION
    /\ g_inject_error_flag = 2
    /\ stmt = [kind |-> "CHECK", code |-> 2, call |-> 1, rv |-> 1]
    /\ running
    /\ g_last_error = ERR_NONE

\* C13: with the README's enumeration, once g_inject_error_flag holds 2 the
\* next CHECK whose code is ERR_RADIO fails, even if its call succeeded.
C13_GdbValueArmsRadio ==
    [][(/\ StmtStep
        /\ ERRCHECK_ENABLE_RUNTIME_INJECTION
        /\ g_inject_error_flag = GdbInjectValue
        /\ stmt'.kind = "CHECK"
        /\ stmt'.code = ERR_RADIO)
         => /\ ~running'
            /\ result' = <<ERR_FAILURE>>
            /\ g_last_error' = ERR_RADIO]_vars

C15_TwoResults ==
    [][/\ result' \in {NoResult, <<ERR_NONE>>, <<ERR_FAILURE>>}
       /\ (StmtStep /\ stmt'.kind \in CheckedKinds) =>
            LET injected ==
                    \/ /\ ERRCHECK_ENABLE_RUNTIME_INJECTION
                       /\ g_inject_error_flag # ERR_NONE
                       /\ g_inject_error_flag = stmt'.code
                    \/ stmt'.kind = "CHECK_SENSOR" /\ INJECT_ERR_SENSOR
                fails == stmt'.rv = 0 \/ injected
            IN  /\ running' = ~fails
                /\ result' = IF fails THEN <<ERR_FAILURE>> ELSE NoResult
       /\ (running /\ ~running' /\ ~StmtStep) =>
            /\ result' = <<ERR_NONE>>
            /\ first_fail.at = 0
            /\ evaluated = 1 .. pc]_vars

\* C16: in the build without runtime injection a checked call fails exactly
\* when its outcome is 0: negative outcomes and outcomes other than 1 pass.
C16_OnlyZeroFails ==
    [][(/\ StmtStep
        /\ ~ERRCHECK_ENABLE_RUNTIME_INJECTION
        /\ \/ stmt'.kind \in {"CHECK", "CHECK_SAME"}
           \/ stmt'.kind = "CHECK_SENSOR" /\ ~INJECT_ERR_SENSOR)
         => /\ ~running' <=> stmt'.rv = 0
            /\ result' = <<ERR_FAILURE>> <=> stmt'.rv = 0
            /\ stmt'.rv # 0 => g_last_error' = g_last_error]_vars

\* C16 happens: a CHECK whose call returned -1 passed.
C16_Witness ==
    /\ ~ERRCHECK_ENABLE_RUNTIME_INJECTION
    /\ stmt = [kind |-> "CHECK", code |-> 1, call |-> -1, rv |-> -1]
    /\ running
    /\ g_last_error = ERR_NONE

\* C17: one arming of the trigger forces at most one checked call to fail,
\* also when two contexts evaluate checked calls with the armed code and
\* their test, write and reset steps interleave.  (shots counts the calls
\* forced since the trigger was last written by the debugger.)
C17_OneForcedPerArming == shots <= 1

\* C18: while the debugger writes the trigger concurrently, between the test
\* of a forced call and its reset the trigger changes only from armed to
\* consumed; and the value a failing call writes to g_last_error is its own
\* code.
C18_BenignTriggerChange ==
    [][/\ (/\ \E c \in Context : /\ ctx[c].at \in {"write", "reset"}
                                  /\ ctx[c].forced
                                  /\ ctx[c].code # ERR_NONE
            /\ g_inject_error_flag' # g_inject_error_flag)
           => /\ g_inject_error_flag # ERR_NONE
              /\ g_inject_error_flag' = ERR_NONE
       /\ g_last_error' # g_last_error
           => \E c \in Context : /\ ctx[c].at = "write"
                                 /\ ctx'[c].at # "write"
                                 /\ g_last_error' = ctx[c].code]_vars

\* C19: with two contexts and no lock the slot is last-write-wins: at every
\* moment g_last_error is the code written by the most recent failing
\* checked call of either context, ERR_NONE before any failed.
C19_LastWriteWins == g_last_error = last_write

\* C19 happens: main's CHECK failed with code 1, the interrupt's CHECK
\* failed with code 2 and wrote after it, and main, back from its own
\* ERR_FAILURE, read 2 from g_last_error.
C19_Witness ==
    /\ ctx["main"].at = "seen"
    /\ ctx["main"].code = 1
    /\ ctx["main"].seen = 2
    /\ ctx["isr"].code = 2
    /\ ctx["isr"].at \in {"reset", "return", "failed", "seen"}

\* C20: a failure ends only the operation that contains the failing
\* statement.  When that operation is the call of an outer CHECK(inner(), e)
\* on which nothing is injected, the outer check falls through when inner()
\* returned ERR_FAILURE, and ends outer() with ERR_FAILURE and
\* g_last_error = e when inner() returned ERR_NONE.
C20_OuterCheckOnInnerResult ==
    [][(outer.at = "check" /\ outer'.at = "done") =>
         LET injected == /\ ERRCHECK_ENABLE_RUNTIME_INJECTION
                         /\ g_inject_error_flag # ERR_NONE
                         /\ g_inject_error_flag = stmt'.code
         IN  /\ (outer.inner = ERR_FAILURE /\ ~injected) =>
                    /\ running'
                    /\ result' = NoResult
                    /\ g_last_error' = g_last_error
             /\ outer.inner = ERR_NONE =>
                    /\ ~running'
                    /\ result' = <<ERR_FAILURE>>
                    /\ g_last_error' = stmt'.code]_vars

====
